---- MODULE Spec2Model ----
(***************************************************************************)
(* Model of the benchmarking harness of botorchsampler-candidate_funcs:    *)
(*   main.py  - Optimizer (sampler + per-iteration study, replay of the    *)
(*              observations), run_optimization, main (trials, random      *)
(*              baseline, strategies, one CSV per trial)                   *)
(*   plot.py  - get_best_ys (running best)                                 *)
(*                                                                         *)
(* Three specifications share the variables:                               *)
(*   Spec      the program main() as written                               *)
(*   SpecRun   run_optimization called with arbitrary arguments            *)
(*   SpecPlot  get_best_ys applied to arbitrary columns                    *)
(*                                                                         *)
(* Arrays of shape (n, d) are sequences of rows, a row is a sequence of    *)
(* d numbers.  Floats are modelled by small integers.  Python objects      *)
(* (sampler, study) carry an identity drawn from the allocation counter    *)
(* nextId, so that "the same object" and "a new object" can be told apart. *)
(***************************************************************************)
EXTENDS Integers, Sequences, FiniteSets, TLC

\* ---------------------------------------------------------------- bounds
EXP_NUM == 2       \* main.py:152 (3 in the source), scaled down
SERCH_NUM == 2     \* main.py:153 (100 in the source), scaled down
INIT_NUM == 2      \* main.py:154 (10 in the source), scaled down
MaxBatch == 2      \* SpecRun: largest row count of X_init / y_init
MaxIters == 2      \* SpecRun: largest iters argument
MaxLen == 3        \* SpecPlot: longest column given to get_best_ys

\* ------------------------------------------------------------- constants
Inf == 99          \* np.inf of plot.py:10; every modelled value is below it

\* attribute self.sampler was never assigned (identity 0 is no object)
NoSampler == [id |-> 0, candidates_func |-> ""]
\* attribute self.study was never assigned
NoStudy == [id |-> 0, direction |-> "", sampler |-> NoSampler, createdIn |-> 0, trials |-> <<>>]
\* run_<j>.csv does not exist / was left by an earlier execution of main.py
\* (an execution writes run_1.csv, run_2.csv, ... in this order, so what it
\* leaves is run_1.csv .. run_n.csv for some n)
NoFile == [state |-> "absent", shape |-> <<>>]
OldFile == [state |-> "old", shape |-> <<>>]

Directions == {"minimize", "maximize"}

\* class SamplerName(str, Enum)
SamplerName ==
    { "TPE", "EI GammaPrior", "EI DimScaledPrior", "EI Saas",
      "LogEI GammaPrior", "LogEI DimScaledPrior", "LCB",
      "thompson sampling", "experimental" }

\* main(): the experiment settings block (two of the four configured methods)
use_methods == << "EI GammaPrior", "EI DimScaledPrior" >>

\* SpecRun: identifiers handed to run_optimization, one of them not in the enum
RunSamplerNames == { "TPE", "unknown" }

\* ------------------------------------------------- the test function (f)
\* func.distributions: feature name -> distribution, in key order
distributions ==
    << [name |-> "x0", kind |-> "float", low |-> 0, high |-> 1, choices |-> {}],
       [name |-> "x1", kind |-> "categorical", low |-> 0, high |-> 0, choices |-> {2}] >>

\* the values a distribution admits
DistValues(dist) ==
    IF dist.kind = "float" THEN dist.low .. dist.high ELSE dist.choices

\* f.random_x(): one random valid input, shape (1, dim)
random_x ==
    { << <<a, b>> >> : a \in DistValues(distributions[1]), b \in DistValues(distributions[2]) }

\* one row of the objective (sum of the squares of the features)
fRow(X) == X[1] * X[1] + X[2] * X[2]

\* f.f(X): (n, dim) -> (n, 1)
f(X) == [i \in 1..Len(X) |-> << fRow(X[i]) >>]

\* ------------------------------------------------------- numpy helpers
\* mutant: the arguments of np.concatenate swapped
concatenate_Swapped(a, b) == b \o a

\* np.concatenate([a, b]) along axis 0
concatenate(a, b) == a \o b

\* ndarray.squeeze() of an (n, 1) array: (n,) for n > 1, a 0-d scalar for n = 1
squeeze(a) == IF Len(a) = 1 THEN a[1][1] ELSE [i \in 1..Len(a) |-> a[i][1]]

Min(a, b) == IF a < b THEN a ELSE b

\* number of pairs zip(Xs, ys) yields
ZipLen(a, b) == Min(Len(a), Len(b))

\* ----------------------------------------------------------------- state
VARIABLES
    pc,           \* position of the program
    raisedAt,     \* where the uncaught exception was raised ("" if none)
    nextId,       \* allocation counter of object identities
    \* main
    j,            \* trial number of main's outer loop
    files,        \* exp_result/<exp_name>/run_<j>.csv, j in 1..EXP_NUM
    serch_fs,     \* dict column name -> column: <<name, column>> in insertion order
    X_init, y_init,
    ys_random,
    cnt,          \* iterations done by main's current inner loop
    methodIdx,    \* position in use_methods
    \* run_optimization
    sampler_name, direction, iters,
    sampler,      \* the Optimizer object: [sampler, study]
    Xs, ys,
    it,           \* iterations of run_optimization completed
    replayIdx,    \* next pair of zip(Xs, ys) in _set_samples
    new_X,
    result,       \* value returned by run_optimization
    askLog,       \* history: per study.ask() of this run, the objects used
    \* plot
    plot_in, plot_out, plot_stage

vars == << pc, raisedAt, nextId, j, files, serch_fs, X_init, y_init, ys_random,
           cnt, methodIdx, sampler_name, direction, iters, sampler, Xs, ys, it,
           replayIdx, new_X, result, askLog, plot_in, plot_out, plot_stage >>

mainVars == << j, files, serch_fs, X_init, y_init, ys_random, cnt, methodIdx >>
runArgs == << sampler_name, direction, iters >>
plotVars == << plot_in, plot_out, plot_stage >>

\* ------------------------------------------------------------ Optimizer
\* mutant: the else branch falls back to a default sampler
SamplerFor_Default(name, id) ==
    IF name = "LCB" THEN [id |-> id, candidates_func |-> "lcb"]
    ELSE [id |-> id, candidates_func |-> "TPESampler"]

\* Optimizer.__init__: the if/elif chain over sampler_name; the else branch
\* assigns nothing
SamplerFor(name, id) ==
    IF name = "TPE" THEN [id |-> id, candidates_func |-> "TPESampler"]
    ELSE IF name = "LCB" THEN [id |-> id, candidates_func |-> "lcb"]
    ELSE IF name = "EI GammaPrior" THEN [id |-> id, candidates_func |-> "ei_gammma_prior"]
    ELSE IF name = "EI DimScaledPrior" THEN [id |-> id, candidates_func |-> "ei_dim_scaled_prior"]
    ELSE IF name = "EI Saas" THEN [id |-> id, candidates_func |-> "ei_saas"]
    ELSE IF name = "LogEI GammaPrior" THEN [id |-> id, candidates_func |-> "logei_gammma_prior"]
    ELSE IF name = "LogEI DimScaledPrior" THEN [id |-> id, candidates_func |-> "logei_dim_scaled_prior"]
    ELSE IF name = "thompson sampling" THEN [id |-> id, candidates_func |-> "thompson_sampling"]
    ELSE IF name = "experimental" THEN [id |-> id, candidates_func |-> "experimental"]
    ELSE NoSampler

\* the Optimizer object after __init__
Optimizer(name, id) == [sampler |-> SamplerFor(name, id), study |-> NoStudy]

\* mutant: a study that exists is kept (one persistent session with incremental tell)
create_study_Persistent(self, dir, id, iteration) ==
    IF self.study.id # 0 THEN self
    ELSE [self EXCEPT !.study = [id |-> id, direction |-> dir, sampler |-> self.sampler,
                                 createdIn |-> iteration, trials |-> <<>>]]

\* Optimizer.create_study: self.study = optuna.create_study(direction, sampler=self.sampler)
\* a new, empty study object that refers to the Optimizer's sampler object
create_study(self, dir, id, iteration) ==
    [self EXCEPT !.study = [id |-> id, direction |-> dir, sampler |-> self.sampler,
                            createdIn |-> iteration, trials |-> <<>>]]

\* _set_samples, body of the outer loop: params by zip(features, X), value y[0]
features == [k \in 1..Len(distributions) |-> distributions[k].name]

\* mutant: the values are paired with the feature names in reverse order
ParamsOf_Reversed(X) ==
    [n \in {features[k] : k \in 1..Min(Len(features), Len(X))} |->
        X[Len(X) + 1 - (CHOOSE k \in 1..Min(Len(features), Len(X)) : features[k] = n)]]

ParamsOf(X) ==
    [n \in {features[k] : k \in 1..Min(Len(features), Len(X))} |->
        X[CHOOSE k \in 1..Min(Len(features), Len(X)) : features[k] = n]]

create_trial(X, y) == [params |-> ParamsOf(X), value |-> y[1]]

\* study.add_trial(trial): the trial is stored after the ones already there
add_trial(self, trial) ==
    [self EXCEPT !.study.trials = Append(self.study.trials, trial)]

\* get_candidate, after the replay: one value per distribution, in key order,
\* reshaped to (1, dim)
Candidates ==
    { << <<a, b>> >> : a \in DistValues(distributions[1]), b \in DistValues(distributions[2]) }

\* ------------------------------------------------------ run_optimization
\* lines 114-116: sampler = Optimizer(sampler_name); Xs, ys = copies
RunOptimizationEnter ==
    /\ pc = "run_call"
    /\ sampler' = Optimizer(sampler_name, nextId)
    /\ nextId' = nextId + 1
    /\ Xs' = X_init
    /\ ys' = y_init
    /\ it' = 0
    /\ replayIdx' = 1
    /\ new_X' = <<>>
    /\ askLog' = <<>>
    /\ pc' = "loop"
    /\ UNCHANGED << raisedAt, result, mainVars, runArgs, plotVars >>

\* line 120: sampler.create_study(direction); reading self.sampler raises
\* AttributeError when __init__ assigned none
CreateStudy ==
    /\ pc = "loop"
    /\ it < iters
    /\ IF sampler.sampler = NoSampler
         THEN /\ pc' = "raised"
              /\ raisedAt' = "create_study"
              /\ UNCHANGED << sampler, nextId, replayIdx >>
         ELSE /\ sampler' = create_study(sampler, direction, nextId, it + 1)
              /\ nextId' = nextId + 1
              /\ replayIdx' = 1
              /\ pc' = IF ZipLen(Xs, ys) = 0 THEN "ask" ELSE "set_samples"
              /\ UNCHANGED raisedAt
    /\ UNCHANGED << Xs, ys, it, new_X, result, askLog, mainVars, runArgs, plotVars >>

\* lines 74-79: one round of "for X, y in zip(Xs, ys)"
SetSamples ==
    /\ pc = "set_samples"
    /\ replayIdx <= ZipLen(Xs, ys)
    /\ sampler' = add_trial(sampler, create_trial(Xs[replayIdx], ys[replayIdx]))
    /\ replayIdx' = replayIdx + 1
    /\ pc' = IF replayIdx = ZipLen(Xs, ys) THEN "ask" ELSE "set_samples"
    /\ UNCHANGED << raisedAt, nextId, Xs, ys, it, new_X, result, askLog,
                    mainVars, runArgs, plotVars >>

\* lines 94-102: trial = self.study.ask(); suggest_* per distribution
Ask ==
    /\ pc = "ask"
    /\ \E c \in Candidates : new_X' = c
    /\ askLog' = Append(askLog, [study |-> sampler.study.id,
                                 sampler |-> sampler.study.sampler.id,
                                 createdIn |-> sampler.study.createdIn,
                                 iteration |-> it + 1,
                                 trials |-> sampler.study.trials])
    /\ pc' = "evaluate"
    /\ UNCHANGED << raisedAt, nextId, sampler, Xs, ys, it, replayIdx, result,
                    mainVars, runArgs, plotVars >>

\* mutant: the new output is not appended to ys
EvaluateAppend_DropY ==
    /\ pc = "evaluate"
    /\ Xs' = concatenate(Xs, new_X)
    /\ ys' = ys
    /\ it' = it + 1
    /\ pc' = "loop"
    /\ UNCHANGED << raisedAt, nextId, sampler, replayIdx, new_X, result, askLog,
                    mainVars, runArgs, plotVars >>

\* lines 122-124: new_y = func.f(new_X); Xs, ys grow by concatenation
EvaluateAppend ==
    /\ pc = "evaluate"
    /\ Xs' = concatenate(Xs, new_X)
    /\ ys' = concatenate(ys, f(new_X))
    /\ it' = it + 1
    /\ pc' = "loop"
    /\ UNCHANGED << raisedAt, nextId, sampler, replayIdx, new_X, result, askLog,
                    mainVars, runArgs, plotVars >>

\* line 125: return ys; the frame of run_optimization and its locals are gone
RunOptimizationReturn ==
    /\ pc = "loop"
    /\ it >= iters
    /\ result' = ys
    /\ sampler' = Optimizer("", 0)
    /\ Xs' = <<>>
    /\ ys' = <<>>
    /\ it' = 0
    /\ replayIdx' = 1
    /\ new_X' = <<>>
    /\ askLog' = <<>>
    /\ pc' = "run_return"
    /\ UNCHANGED << raisedAt, nextId, mainVars, runArgs, plotVars >>

\* mutant: the exception is caught and the iteration is tried again
LibraryRaises_Retried ==
    /\ \/ pc = "loop" /\ it < iters /\ sampler.sampler # NoSampler /\ raisedAt' = "create_study"
       \/ pc = "set_samples" /\ raisedAt' = "set_samples"
       \/ pc = "ask" /\ raisedAt' = "ask"
    /\ pc' = "loop"
    /\ UNCHANGED << nextId, sampler, Xs, ys, it, replayIdx, new_X, result, askLog,
                    mainVars, runArgs, plotVars >>

\* optuna raises inside create_study, create_trial/add_trial or ask/suggest_*
\* (bad bounds, non-finite value, surrogate fit, acquisition optimisation);
\* nothing in main.py catches it
LibraryRaises ==
    /\ \/ pc = "loop" /\ it < iters /\ sampler.sampler # NoSampler /\ raisedAt' = "create_study"
       \/ pc = "set_samples" /\ raisedAt' = "set_samples"
       \/ pc = "ask" /\ raisedAt' = "ask"
    /\ pc' = "raised"
    /\ UNCHANGED << nextId, sampler, Xs, ys, it, replayIdx, new_X, result, askLog,
                    mainVars, runArgs, plotVars >>

RunNext ==
    \/ RunOptimizationEnter
    \/ CreateStudy
    \/ SetSamples
    \/ Ask
    \/ EvaluateAppend
    \/ RunOptimizationReturn
    \/ LibraryRaises

\* ------------------------------------------------- SpecRun: direct calls
Rows == { <<0, 2>>, <<1, 2>> }
Outs == { <<4>>, <<10>> }
SeqsUpTo(S, n) == UNION { [1..k -> S] : k \in 0..n }

InitRun ==
    /\ pc = "run_call"
    /\ raisedAt = ""
    /\ nextId = 1
    /\ j = 0
    /\ files = [t \in 1..EXP_NUM |-> NoFile]
    /\ serch_fs = <<>>
    /\ X_init \in SeqsUpTo(Rows, MaxBatch)
    /\ y_init \in SeqsUpTo(Outs, MaxBatch)
    /\ ys_random = <<>>
    /\ cnt = 0
    /\ methodIdx = 0
    /\ sampler_name \in RunSamplerNames
    /\ direction \in Directions
    /\ iters \in 0..MaxIters
    /\ sampler = Optimizer("", 0)
    /\ Xs = <<>>
    /\ ys = <<>>
    /\ it = 0
    /\ replayIdx = 1
    /\ new_X = <<>>
    /\ result = <<>>
    /\ askLog = <<>>
    /\ plot_in = <<>>
    /\ plot_out = <<>>
    /\ plot_stage = "off"

SpecRun == InitRun /\ [][RunNext]_vars

\* ------------------------------------------------------------------ main
\* serch_fs[name] = column: a dict keeps insertion order, an existing key
\* keeps its place
SetItem(d, name, col) ==
    IF \E k \in 1..Len(d) : d[k][1] = name
      THEN [k \in 1..Len(d) |-> IF d[k][1] = name THEN <<name, col>> ELSE d[k]]
      ELSE Append(d, <<name, col>>)

\* the frame pl.DataFrame(serch_fs).write_csv writes: header and row count per
\* column (the cell values are left out of the model of the file)
FrameShape(d) == [k \in 1..Len(d) |-> << d[k][1], Len(d[k][2]) >>]

\* lines 165-171: next trial; first initial point
MainStartTrial ==
    /\ pc = "trial"
    /\ j <= EXP_NUM
    /\ serch_fs' = <<>>
    /\ \E X \in random_x : X_init' = X /\ y_init' = f(X)
    /\ cnt' = 0
    /\ pc' = "init_loop"
    /\ UNCHANGED << raisedAt, nextId, j, files, ys_random, methodIdx, runArgs, sampler,
                    Xs, ys, it, replayIdx, new_X, result, askLog, plotVars >>

\* lines 172-176: one round of "for _ in range(INIT_NUM - 1)"
MainInitLoop ==
    /\ pc = "init_loop"
    /\ cnt < INIT_NUM - 1
    /\ \E X \in random_x :
          /\ X_init' = concatenate(X_init, X)
          /\ y_init' = concatenate(y_init, f(X))
    /\ cnt' = cnt + 1
    /\ UNCHANGED << pc, raisedAt, nextId, j, files, serch_fs, ys_random, methodIdx, runArgs,
                    sampler, Xs, ys, it, replayIdx, new_X, result, askLog, plotVars >>

\* mutant: the baseline starts from an empty sequence
MainRandomStart_Empty ==
    /\ pc = "init_loop"
    /\ cnt >= INIT_NUM - 1
    /\ ys_random' = <<>>
    /\ cnt' = 0
    /\ pc' = "random_loop"
    /\ UNCHANGED << raisedAt, nextId, j, files, serch_fs, X_init, y_init, methodIdx, runArgs,
                    sampler, Xs, ys, it, replayIdx, new_X, result, askLog, plotVars >>

\* line 179: ys_random = y_init.copy()
MainRandomStart ==
    /\ pc = "init_loop"
    /\ cnt >= INIT_NUM - 1
    /\ ys_random' = y_init
    /\ cnt' = 0
    /\ pc' = "random_loop"
    /\ UNCHANGED << raisedAt, nextId, j, files, serch_fs, X_init, y_init, methodIdx, runArgs,
                    sampler, Xs, ys, it, replayIdx, new_X, result, askLog, plotVars >>

\* mutant: the baseline appends to the initial batch itself (no copy was taken)
MainRandomStep_Shared ==
    /\ pc = "random_loop"
    /\ cnt < SERCH_NUM
    /\ \E X \in random_x :
          /\ ys_random' = concatenate(ys_random, f(X))
          /\ y_init' = concatenate(y_init, f(X))
    /\ cnt' = cnt + 1
    /\ UNCHANGED << pc, raisedAt, nextId, j, files, serch_fs, X_init, methodIdx,
                    runArgs, sampler, Xs, ys, it, replayIdx, new_X, result, askLog, plotVars >>

\* lines 180-182: one round of "for _ in range(SERCH_NUM)"
MainRandomStep ==
    /\ pc = "random_loop"
    /\ cnt < SERCH_NUM
    /\ \E X \in random_x : ys_random' = concatenate(ys_random, f(X))
    /\ cnt' = cnt + 1
    /\ UNCHANGED << pc, raisedAt, nextId, j, files, serch_fs, X_init, y_init, methodIdx,
                    runArgs, sampler, Xs, ys, it, replayIdx, new_X, result, askLog, plotVars >>

\* line 183: serch_fs['Random'] = ys_random.squeeze()
MainRandomDone ==
    /\ pc = "random_loop"
    /\ cnt >= SERCH_NUM
    /\ serch_fs' = SetItem(serch_fs, "Random", squeeze(ys_random))
    /\ methodIdx' = 1
    /\ pc' = "method_loop"
    /\ UNCHANGED << raisedAt, nextId, j, files, X_init, y_init, ys_random, cnt, runArgs,
                    sampler, Xs, ys, it, replayIdx, new_X, result, askLog, plotVars >>

\* lines 186-188: for method in use_methods: run_optimization(f, direction,
\* X_init, y_init, method, SERCH_NUM)
MainCallRun ==
    /\ pc = "method_loop"
    /\ methodIdx <= Len(use_methods)
    /\ sampler_name' = use_methods[methodIdx]
    /\ iters' = SERCH_NUM
    /\ pc' = "run_call"
    /\ UNCHANGED << raisedAt, nextId, direction, mainVars, sampler, Xs, ys, it, replayIdx,
                    new_X, result, askLog, plotVars >>

\* lines 188-189: ys = <returned>; serch_fs[method.value] = ys.squeeze()
MainStoreColumn ==
    /\ pc = "run_return"
    /\ serch_fs' = SetItem(serch_fs, sampler_name, squeeze(result))
    /\ methodIdx' = methodIdx + 1
    /\ pc' = "method_loop"
    /\ UNCHANGED << raisedAt, nextId, j, files, X_init, y_init, ys_random, cnt, runArgs,
                    sampler, Xs, ys, it, replayIdx, new_X, result, askLog, plotVars >>

\* lines 192-193: df = pl.DataFrame(serch_fs); df.write_csv(run_<j>.csv), which
\* replaces a file of that name; columns of unequal length make DataFrame raise
MainWriteCsv ==
    /\ pc = "method_loop"
    /\ methodIdx > Len(use_methods)
    /\ IF \A a, b \in 1..Len(serch_fs) : Len(serch_fs[a][2]) = Len(serch_fs[b][2])
         THEN /\ files' = [files EXCEPT ![j] = [state |-> "written", shape |-> FrameShape(serch_fs)]]
              /\ j' = j + 1
              /\ pc' = "trial"
              /\ UNCHANGED raisedAt
         ELSE /\ pc' = "raised"
              /\ raisedAt' = "DataFrame"
              /\ UNCHANGED << files, j >>
    /\ UNCHANGED << nextId, serch_fs, X_init, y_init, ys_random, cnt, methodIdx, runArgs,
                    sampler, Xs, ys, it, replayIdx, new_X, result, askLog, plotVars >>

\* the outer loop is over: main returns
MainDone ==
    /\ pc = "trial"
    /\ j > EXP_NUM
    /\ pc' = "done"
    /\ UNCHANGED << raisedAt, nextId, mainVars, runArgs, sampler, Xs, ys, it, replayIdx,
                    new_X, result, askLog, plotVars >>

Init ==
    /\ pc = "trial"
    /\ raisedAt = ""
    /\ nextId = 1
    /\ j = 1
    /\ \E n \in 0..EXP_NUM : files = [t \in 1..EXP_NUM |-> IF t <= n THEN OldFile ELSE NoFile]
    /\ serch_fs = <<>>
    /\ X_init = <<>>
    /\ y_init = <<>>
    /\ ys_random = <<>>
    /\ cnt = 0
    /\ methodIdx = 0
    /\ sampler_name = ""
    /\ direction = "minimize"
    /\ iters = 0
    /\ sampler = Optimizer("", 0)
    /\ Xs = <<>>
    /\ ys = <<>>
    /\ it = 0
    /\ replayIdx = 1
    /\ new_X = <<>>
    /\ result = <<>>
    /\ askLog = <<>>
    /\ plot_in = <<>>
    /\ plot_out = <<>>
    /\ plot_stage = "off"

Next ==
    \/ MainStartTrial
    \/ MainInitLoop
    \/ MainRandomStart
    \/ MainRandomStep
    \/ MainRandomDone
    \/ MainCallRun
    \/ RunOptimizationEnter
    \/ CreateStudy
    \/ SetSamples
    \/ Ask
    \/ EvaluateAppend
    \/ RunOptimizationReturn
    \/ LibraryRaises
    \/ MainStoreColumn
    \/ MainWriteCsv
    \/ MainDone

Spec == Init /\ [][Next]_vars

\* ------------------------------------------------------------------ plot
\* mutant: the loop appends y instead of best_y
RECURSIVE BestLoop_Raw(_, _, _, _)
BestLoop_Raw(col, i, best_y, best_ys) ==
    IF i > Len(col) THEN best_ys
    ELSE LET b == IF col[i] < best_y THEN col[i] ELSE best_y
         IN  BestLoop_Raw(col, i + 1, b, Append(best_ys, col[i]))

\* get_best_ys: the loop "for y in ys", from position i on
RECURSIVE BestLoop(_, _, _, _)
BestLoop(col, i, best_y, best_ys) ==
    IF i > Len(col) THEN best_ys
    ELSE LET b == IF col[i] < best_y THEN col[i] ELSE best_y
         IN  BestLoop(col, i + 1, b, Append(best_ys, b))

\* get_best_ys(ys): best_y = np.inf; best_ys = []
get_best_ys(col) == BestLoop(col, 1, Inf, <<>>)

\* objective values found in a column of run_<j>.csv
PlotVals == { -1, 0, 2 }

\* plot.py line 36: best_ys = get_best_ys(ys)
PlotApply ==
    /\ plot_stage = "read"
    /\ plot_out' = get_best_ys(plot_in)
    /\ plot_stage' = "best"
    /\ UNCHANGED << pc, raisedAt, nextId, mainVars, runArgs, sampler, Xs, ys, it,
                    replayIdx, new_X, result, askLog, plot_in >>

\* the transform applied to its own output
PlotReapply ==
    /\ plot_stage = "best"
    /\ plot_in' = plot_out
    /\ plot_out' = get_best_ys(plot_out)
    /\ plot_stage' = "again"
    /\ UNCHANGED << pc, raisedAt, nextId, mainVars, runArgs, sampler, Xs, ys, it,
                    replayIdx, new_X, result, askLog >>

InitPlot ==
    /\ pc = "plot"
    /\ raisedAt = ""
    /\ nextId = 1
    /\ j = 0
    /\ files = [t \in 1..EXP_NUM |-> OldFile]
    /\ serch_fs = <<>>
    /\ X_init = <<>>
    /\ y_init = <<>>
    /\ ys_random = <<>>
    /\ cnt = 0
    /\ methodIdx = 0
    /\ sampler_name = ""
    /\ direction \in Directions
    /\ iters = 0
    /\ sampler = Optimizer("", 0)
    /\ Xs = <<>>
    /\ ys = <<>>
    /\ it = 0
    /\ replayIdx = 1
    /\ new_X = <<>>
    /\ result = <<>>
    /\ askLog = <<>>
    /\ plot_in \in SeqsUpTo(PlotVals, MaxLen)
    /\ plot_out = <<>>
    /\ plot_stage = "read"

PlotNext ==
    \/ PlotApply
    \/ PlotReapply

SpecPlot == InitPlot /\ [][PlotNext]_vars

\* ================================================================ claims
RunPcs == { "loop", "set_samples", "ask", "evaluate" }
InRun == pc \in RunPcs

NonIncreasing(q) == \A a, b \in 1..Len(q) : a < b => q[b] <= q[a]
NonDecreasing(q) == \A a, b \in 1..Len(q) : a < b => q[a] <= q[b]

\* the trial the replay owes to observation i of the store
ExpectedTrial(i) ==
    [params |-> [n \in {"x0", "x1"} |-> IF n = "x0" THEN Xs[i][1] ELSE Xs[i][2]],
     value |-> ys[i][1]]

\* C1 (Spec): run_optimization returns len(y_init) + iters outputs, the
\* random-search sequence ends with INIT_NUM + SERCH_NUM entries, and every
\* column of the result table and of every written file has
\* INIT_NUM + SERCH_NUM entries.
C1_ColumnLength ==
    /\ pc = "run_return" => Len(result) = Len(y_init) + iters
    /\ (pc = "random_loop" /\ cnt >= SERCH_NUM) => Len(ys_random) = INIT_NUM + SERCH_NUM
    /\ \A k \in 1..Len(serch_fs) : Len(serch_fs[k][2]) = INIT_NUM + SERCH_NUM
    /\ \A t \in 1..EXP_NUM :
          files[t].state = "written" =>
              /\ Len(files[t].shape) = 1 + Len(use_methods)
              /\ \A k \in 1..Len(files[t].shape) : files[t].shape[k][2] = INIT_NUM + SERCH_NUM

C1_Witness ==
    /\ files[1].state = "written"
    /\ files[1].shape[1][1] = "Random"
    /\ Len(files[1].shape) = 1 + Len(use_methods)

\* C2, as stated (Spec): no object used to produce the candidate of one
\* iteration, study or sampler, is used again by a later iteration.
C2_NothingReused ==
    \A a, b \in 1..Len(askLog) :
        a < b => /\ askLog[a].study # askLog[b].study
                 /\ askLog[a].sampler # askLog[b].sampler

\* C2, amended (Spec): the study that answers the ask of iteration k was
\* created in iteration k and no other iteration uses it; the sampler object
\* is the one made by Optimizer.__init__ at the start of the run and every
\* iteration's study uses it.
C2_StudyFreshSamplerShared ==
    \A a \in 1..Len(askLog) :
        /\ askLog[a].iteration = a
        /\ askLog[a].createdIn = a
        /\ askLog[a].sampler = sampler.sampler.id
        /\ \A b \in 1..Len(askLog) : a < b => askLog[a].study # askLog[b].study

C2_Witness ==
    /\ pc = "evaluate"
    /\ Len(askLog) >= 2
    /\ askLog[1].sampler = askLog[2].sampler
    /\ askLog[1].study # askLog[2].study

\* C3 (Spec): when study.ask is about to be called, the study holds exactly
\* one trial per stored observation (initial batch and the candidates of the
\* earlier iterations), in store order, with the features in key order and
\* the value y[0].
C3_ReplayComplete ==
    pc = "ask" =>
        /\ Len(Xs) = Len(X_init) + it
        /\ Len(ys) = Len(Xs)
        /\ Len(sampler.study.trials) = Len(Xs)
        /\ \A i \in 1..Len(Xs) : sampler.study.trials[i] = ExpectedTrial(i)

C3_Witness ==
    /\ pc = "ask"
    /\ it >= 1
    /\ Len(sampler.study.trials) = INIT_NUM + it
    /\ sampler.study.trials[INIT_NUM + 1].params["x0"] = 1
    /\ sampler.study.trials[1].params["x0"] = 0

\* C4 (SpecRun): from an initial batch with as many inputs as outputs, at
\* least one, the store has as many inputs as outputs after every step.
C4_StoreLengths ==
    (InRun /\ Len(X_init) = Len(y_init) /\ Len(X_init) >= 1) => Len(Xs) = Len(ys)

C4_Witness ==
    /\ pc = "loop"
    /\ Len(X_init) = Len(y_init)
    /\ Len(X_init) >= 1
    /\ it >= 2
    /\ Len(Xs) = Len(X_init) + it

\* C5 (Spec): until a run returns, its store changes only in the evaluate
\* step, which puts the candidate and the test function's value on it at the
\* end and leaves every earlier pair where it was.
C5_AppendOnly ==
    [][ (pc \in RunPcs /\ pc' # "run_return") =>
          IF pc = "evaluate"
            THEN /\ Len(new_X) = 1
                 /\ Xs' = Append(Xs, new_X[1])
                 /\ ys' = Append(ys, << fRow(new_X[1]) >>)
            ELSE Xs' = Xs /\ ys' = ys ]_vars

C5_Witness ==
    /\ pc = "loop"
    /\ it >= 2
    /\ Len(Xs) = INIT_NUM + it
    /\ Xs[Len(Xs)] = new_X[1]
    /\ Xs[Len(Xs)] # Xs[Len(Xs) - 1]

\* C6, as stated (SpecPlot): the running best is non-increasing when the
\* direction is minimize, non-decreasing when it is maximize, and idempotent.
C6_Directional ==
    plot_stage \in { "best", "again" } =>
        /\ direction = "minimize" => NonIncreasing(plot_out)
        /\ direction = "maximize" => NonDecreasing(plot_out)
        /\ plot_stage = "again" => plot_out = plot_in

\* C6, amended (SpecPlot): get_best_ys takes no direction; its output is the
\* running minimum of its input, non-increasing whatever the direction of the
\* experiment, and applying it to its own output returns that output.
C6_RunningMinimum ==
    plot_stage \in { "best", "again" } =>
        /\ Len(plot_out) = Len(plot_in)
        /\ NonIncreasing(plot_out)
        /\ \A i \in 1..Len(plot_in) :
              /\ plot_out[i] <= plot_in[i]
              /\ \E k \in 1..i : plot_out[i] = plot_in[k]
        /\ plot_stage = "again" => plot_out = plot_in

C6_Witness ==
    /\ plot_stage = "again"
    /\ direction = "maximize"
    /\ Len(plot_out) >= 2
    /\ plot_out[2] < plot_out[1]

C8_NeverReturns ==
    (sampler_name \notin SamplerName /\ pc # "run_call") =>
        /\ sampler.sampler = NoSampler
        /\ pc \in { "loop", "raised", "run_return" }
        /\ pc = "loop" => raisedAt = ""
        /\ pc = "raised" =>
              /\ raisedAt = "create_study"
              /\ it = 0
              /\ askLog = <<>>
              /\ sampler.study = NoStudy
        /\ pc # "run_return"

\* C8, amended (SpecRun): as stated when iters >= 1; with iters = 0 the loop
\* body never runs, nothing raises and the run returns the initial outputs.
C8_RaisesAtFirstUse ==
    (sampler_name \notin SamplerName /\ pc # "run_call") =>
        /\ sampler.sampler = NoSampler
        /\ pc \in { "loop", "raised", "run_return" }
        /\ pc = "loop" => raisedAt = ""
        /\ pc = "raised" =>
              /\ raisedAt = "create_study"
              /\ it = 0
              /\ askLog = <<>>
              /\ sampler.study = NoStudy
        /\ iters >= 1 => pc # "run_return"
        /\ pc = "run_return" => (iters = 0 /\ result = y_init)

C8_Witness ==
    /\ sampler_name \notin SamplerName
    /\ pc = "raised"
    /\ raisedAt = "create_study"
    /\ iters >= 1
    /\ Len(X_init) >= 1

\* C9 (Spec): once a call into the optimizer session has raised, the program
\* takes no further step; the raise leaves the files and the result table as
\* they are, the file of the current trial is not written by this execution
\* and the files of the earlier trials are.
C9_FatalNoSalvage ==
    /\ [](raisedAt # "" =>
            /\ pc = "raised"
            /\ files[j].state # "written"
            /\ \A t \in 1..EXP_NUM : (files[t].state = "written") <=> (t < j))
    /\ [][ /\ raisedAt = ""
           /\ raisedAt' # "" => (files' = files /\ serch_fs' = serch_fs /\ j' = j) ]_vars

C9_Witness ==
    /\ pc = "raised"
    /\ raisedAt = "ask"
    /\ j = 2
    /\ Len(serch_fs) = 2
    /\ files[1].state = "written"
    /\ files[2].state = "old"

\* C10 (Spec): the baseline loop and every run_optimization call leave X_init
\* and y_init as they are, and every column of the trial's table, and the
\* outputs of the run in progress, begin with the initial outputs in order.
C10_SameInitialBatch ==
    /\ [](/\ \A k \in 1..Len(serch_fs) : \A i \in 1..Len(y_init) :
                serch_fs[k][2][i] = y_init[i][1]
          /\ InRun => /\ \A i \in 1..Len(y_init) : ys[i] = y_init[i]
                      /\ \A i \in 1..Len(X_init) : Xs[i] = X_init[i])
    /\ [][ (pc \in { "random_loop", "method_loop", "run_call", "run_return" } \cup RunPcs)
              => (X_init' = X_init /\ y_init' = y_init) ]_vars

C10_Witness ==
    /\ pc = "method_loop"
    /\ Len(serch_fs) = 1 + Len(use_methods)
    /\ Len(y_init) = INIT_NUM
    /\ serch_fs[1][2] # serch_fs[2][2]
    /\ serch_fs[2][2] # serch_fs[3][2]

====
